---- MODULE Spec2Model ----
(***************************************************************************)
(* Invoice reimbursement system: ingestion pipeline, vector index manager, *)
(* retrieval orchestrator and session store, modelled from the Python      *)
(* sources.  Text is a sequence of one-character strings so that           *)
(* str.strip, str.lower, str.replace, str.endswith and the regular         *)
(* expressions are computed, not assumed.                                  *)
(***************************************************************************)
EXTENDS Integers, Sequences, FiniteSets, TLC

(***************************************************************************)
(* Bounds of the model.                                                    *)
(***************************************************************************)
MaxFiles == 3
MaxDocs == 2
MaxIds == 2
MaxTurns == 2
MaxCalls == 2
MaxLongTurns == 6
MaxWords == 2
MaxResultsAsked == 2
MaxSamples == 6

(***************************************************************************)
(* Program constants.                                                      *)
(***************************************************************************)
HistoryWindow == 10
PromptWindow == 4
MaxResults == 5

(***************************************************************************)
(* Text helpers (Python str methods).                                      *)
(***************************************************************************)
IsSpace(c) == c \in {" ", "\t", "\n"}

LowerChar(c) ==
  CASE c = "A" -> "a" [] c = "B" -> "b" [] c = "D" -> "d" [] c = "F" -> "f"
    [] c = "I" -> "i" [] c = "J" -> "j" [] c = "P" -> "p" [] c = "S" -> "s"
    [] OTHER -> c

UpperChar(c) ==
  CASE c = "a" -> "A" [] c = "b" -> "B" [] c = "d" -> "D" [] c = "f" -> "F"
    [] c = "i" -> "I" [] c = "j" -> "J" [] c = "p" -> "P" [] c = "s" -> "S"
    [] c = "o" -> "O" [] c = "l" -> "L" [] c = "h" -> "H" [] c = "n" -> "N"
    [] c = "m" -> "M" [] c = "e" -> "E" [] c = "r" -> "R" [] c = "t" -> "T"
    [] OTHER -> c

IsLetter(c) == LowerChar(c) \in
  {"a", "b", "c", "d", "e", "f", "g", "h", "i", "j", "k", "l", "m", "n",
   "o", "p", "q", "r", "s", "t", "u", "v", "w", "x", "y", "z"}

Lower(t) == [i \in 1..Len(t) |-> LowerChar(t[i])]

RECURSIVE LStrip(_)
LStrip(t) == IF t # <<>> /\ IsSpace(Head(t)) THEN LStrip(Tail(t)) ELSE t

RECURSIVE RStrip(_)
RStrip(t) ==
  IF t # <<>> /\ IsSpace(t[Len(t)]) THEN RStrip(SubSeq(t, 1, Len(t) - 1)) ELSE t

Strip(t) == RStrip(LStrip(t))

\* t[p .. p+Len(w)-1] = w
StartsAt(t, w, p) ==
  /\ p >= 1
  /\ p + Len(w) - 1 <= Len(t)
  /\ SubSeq(t, p, p + Len(w) - 1) = w

\* Python `w in t`
Contains(t, w) == \E p \in 1..(Len(t) + 1) : StartsAt(t, w, p)

EndsWith(t, w) == Len(w) <= Len(t) /\ StartsAt(t, w, Len(t) - Len(w) + 1)

\* Python t.replace(w, ""): every non-overlapping occurrence, left to right
RECURSIVE Remove(_, _)
Remove(t, w) ==
  IF t = <<>> THEN <<>>
  ELSE IF StartsAt(t, w, 1) THEN Remove(SubSeq(t, Len(w) + 1, Len(t)), w)
  ELSE <<Head(t)>> \o Remove(Tail(t), w)

\* Python str.title() : the first letter of every run of letters is upper-cased
Title(t) ==
  [i \in 1..Len(t) |->
     IF IsLetter(t[i]) /\ (i = 1 \/ ~IsLetter(t[i - 1]))
       THEN UpperChar(t[i]) ELSE LowerChar(t[i])]

\* the character sequence as one string value
RECURSIVE Join(_)
Join(t) == IF t = <<>> THEN "" ELSE Head(t) \o Join(Tail(t))

DotPdf == <<".", "p", "d", "f">>

(***************************************************************************)
(* State.                                                                  *)
(***************************************************************************)
VARIABLES
  collection,      \* VectorStoreManager.collection: the stored documents, in insertion order
  next_id,         \* the ids handed out so far by uuid.uuid4() (a fresh id per call)
  disk,            \* the files that exist under the temporary directories
  batch,           \* the process_invoices call in flight (or its outcome)
  heap,            \* the ChatContext objects, by object id
  chat_sessions,   \* ChatbotService.chat_sessions: session id -> ChatContext object id
  calls,           \* the process_chat_message calls in flight, by slot
  gen,             \* the arguments and prompt of the last generate_chat_response call
  turns,           \* the number of process_chat_message calls made so far
  ret              \* the outcome of the operation that ran last

vars == <<collection, next_id, disk, batch, heap, chat_sessions, calls, gen, turns, ret>>

store_vars == <<collection, next_id>>
chat_vars == <<heap, chat_sessions, calls, gen, turns>>

(***************************************************************************)
(* Python values.                                                          *)
(***************************************************************************)
PyNone == "<None>"

\* str(v)
Str(v) == IF v = PyNone THEN "None" ELSE v

\* dict.get(k, default)
Get(d, k, default) == IF k \in DOMAIN d THEN d[k] ELSE default

Range(f) == {f[x] : x \in DOMAIN f}

(***************************************************************************)
(* Embedding generator (src/app/core/embeddings.py).  The sentence         *)
(* transformer is an opaque deterministic function of the stripped text;   *)
(* vectors are points 0..2 of a line and the distance is squared L2.       *)
(***************************************************************************)
Encode(t) == Len(t) % 3

\* generate_embedding: [ok, value]; not ok is the wrapped ValueError or a model failure
generate_embedding(t, model_fails) ==
  IF t = <<>> \/ Strip(t) = <<>> THEN [ok |-> FALSE, value |-> 0]
  ELSE IF model_fails THEN [ok |-> FALSE, value |-> 0]
  ELSE [ok |-> TRUE, value |-> Encode(Strip(t))]

\* a distance that tells no two vectors apart
DistanceConstant(a, b) == 0

Distance(a, b) == (a - b) * (a - b)

(***************************************************************************)
(* Vector index manager (src/app/core/vector_store.py).                    *)
(***************************************************************************)
MetadataOf(invoice_data) ==
  [invoice_id    |-> Str(Get(invoice_data, "invoice_id", "unknown")),
   employee_name |-> Str(Get(invoice_data, "employee_name", "unknown")),
   status        |-> Str(Get(invoice_data, "status", "unknown")),
   date          |-> Str(Get(invoice_data, "date", "unknown")),
   amount        |-> Str(Get(invoice_data, "reimbursable_amount", "0.00")),
   file_name     |-> Str(Get(invoice_data, "file_name", "unknown"))]

DocumentTextOf(invoice_data) ==
  "Invoice ID: " \o Str(Get(invoice_data, "invoice_id", "N/A"))
    \o " Employee: " \o Str(Get(invoice_data, "employee_name", "N/A"))
    \o " Status: " \o Str(Get(invoice_data, "status", "N/A"))
    \o " Reason: " \o Str(Get(invoice_data, "reason", "N/A"))
    \o " Amount: " \o Str(Get(invoice_data, "reimbursable_amount", "N/A"))

\* collection.add(ids, embeddings, documents, metadatas): appends, touches nothing else
CollectionAddReplacing(coll, doc) == <<doc>>

CollectionAdd(coll, doc) == Append(coll, doc)

\* an id taken from the size of the collection
uuid4_from_count(issued) == Len(collection) + 1

\* str(uuid.uuid4()): an id no earlier call returned; issued counts the calls so far
uuid4(issued) == issued + 1

\* add_invoice: the document stored under the id
AddInvoiceDoc(id, invoice_data, embedding) ==
  [id |-> id, embedding |-> embedding,
   document |-> DocumentTextOf(invoice_data),
   metadata |-> MetadataOf(invoice_data)]

Ids(coll) == {coll[i].id : i \in 1..Len(coll)}

\* search_similar lines 98-104: None, or the entries with a non-empty value
WhereClause(filters) ==
  IF DOMAIN filters = {} THEN [none |-> TRUE, d |-> filters]
  ELSE [none |-> FALSE,
        d |-> [k \in {k \in DOMAIN filters : filters[k] # PyNone /\ filters[k] # ""}
                 |-> Str(filters[k])]]

\* a where that lets every document through
MatchesAnything(doc, where) == TRUE

Matches(doc, where) ==
  where.none \/ \A k \in DOMAIN where.d : doc.metadata[k] = where.d[k]

\* the positions of coll that match, closest first (ties by insertion order)
RECURSIVE Ranked(_, _, _)
Ranked(coll, S, q) ==
  IF S = {} THEN <<>>
  ELSE LET best == CHOOSE i \in S : \A j \in S :
                     \/ Distance(coll[i].embedding, q) < Distance(coll[j].embedding, q)
                     \/ /\ Distance(coll[i].embedding, q) = Distance(coll[j].embedding, q)
                        /\ i <= j
       IN <<best>> \o Ranked(coll, S \ {best}, q)

\* a query that returns every match
TakeAll(s, n) == s

\* the n_results nearest of the matches
Take(s, n) == SubSeq(s, 1, IF Len(s) < n THEN Len(s) ELSE n)

\* collection.query(query_embeddings, n_results, where) formatted as in lines 113-125
search_similar(coll, query_embedding, n_results, filters) ==
  LET where == WhereClause(filters)
      hits == Take(Ranked(coll, {i \in 1..Len(coll) : Matches(coll[i], where)},
                          query_embedding), n_results)
  IN [i \in 1..Len(hits) |->
        [id |-> coll[hits[i]].id,
         document |-> coll[hits[i]].document,
         metadata |-> coll[hits[i]].metadata,
         distance |-> Distance(coll[hits[i]].embedding, query_embedding)]]

(***************************************************************************)
(* Query filter extractor (chatbot_service.py, _extract_filters_from_query)*)
(***************************************************************************)
\* the characters the group [A-Za-z\s] accepts
InNameClass(c) == IsLetter(c) \/ IsSpace(c)

\* the characters (?:\s|$|,|\?) consumes
IsDelim(c) == IsSpace(c) \/ c = "," \/ c = "?"

\* lengths the lazy group ([A-Za-z\s]+?) may take when it starts at s
GroupLens(q, s) ==
  {m \in 1..(Len(q) - s + 1) :
     /\ \A j \in s..(s + m - 1) : InNameClass(q[j])
     /\ (s + m = Len(q) + 1 \/ IsDelim(q[s + m]))}

\* the run of white space \s+ may take after the keyword that starts at p
SpaceRuns(q, kw, p) ==
  {k \in 1..(Len(q) - p - Len(kw) + 1) :
     \A j \in (p + Len(kw))..(p + Len(kw) + k - 1) : IsSpace(q[j])}

\* the greedy \s+ runs after which the group can still match
GoodRuns(q, kw, p) ==
  {k \in SpaceRuns(q, kw, p) : GroupLens(q, p + Len(kw) + k) # {}}

Max(S) == CHOOSE x \in S : \A y \in S : y <= x
Min(S) == CHOOSE x \in S : \A y \in S : x <= y

\* re.search(kw\s+([A-Za-z\s]+?)(?:\s|$|,|\?), q): leftmost start, greedy \s+, lazy group
NameSearch(q, kw) ==
  LET starts == {p \in 1..Len(q) : StartsAt(q, kw, p) /\ GoodRuns(q, kw, p) # {}}
  IN IF starts = {} THEN [found |-> FALSE, group |-> <<>>]
     ELSE LET p == Min(starts)
              s == p + Len(kw) + Max(GoodRuns(q, kw, p))
              m == Min(GroupLens(q, s))
          IN [found |-> TRUE, group |-> SubSeq(q, s, s + m - 1)]

name_patterns == << <<"f", "o", "r">>, <<"b", "y">>,
                    <<"e", "m", "p", "l", "o", "y", "e", "e">> >>

\* lines 153-159: the first pattern that matches decides, also when its name is discarded
RECURSIVE NameFilter(_, _)
NameFilter(q, i) ==
  IF i > Len(name_patterns) THEN <<>>
  ELSE LET match == NameSearch(q, name_patterns[i])
       IN IF match.found
            THEN IF Len(Strip(match.group)) > 1
                   THEN [k \in {"employee_name"} |-> Join(Title(Strip(match.group)))]
                   ELSE <<>>
            ELSE NameFilter(q, i + 1)

\* the keyword table with declined put first
status_keywords_declined_first ==
  << [keyword |-> <<"d", "e", "c", "l", "i", "n", "e", "d">>, status |-> "Declined"],
     [keyword |-> <<"a", "p", "p", "r", "o", "v", "e", "d">>, status |-> "Fully Reimbursed"],
     [keyword |-> <<"r", "e", "j", "e", "c", "t", "e", "d">>, status |-> "Declined"],
     [keyword |-> <<"p", "a", "r", "t", "i", "a", "l">>, status |-> "Partially Reimbursed"],
     [keyword |-> <<"p", "e", "n", "d", "i", "n", "g">>, status |-> "Pending Analysis"] >>

status_keywords ==
  << [keyword |-> <<"a", "p", "p", "r", "o", "v", "e", "d">>, status |-> "Fully Reimbursed"],
     [keyword |-> <<"d", "e", "c", "l", "i", "n", "e", "d">>, status |-> "Declined"],
     [keyword |-> <<"r", "e", "j", "e", "c", "t", "e", "d">>, status |-> "Declined"],
     [keyword |-> <<"p", "a", "r", "t", "i", "a", "l">>, status |-> "Partially Reimbursed"],
     [keyword |-> <<"p", "e", "n", "d", "i", "n", "g">>, status |-> "Pending Analysis"] >>

\* lines 170-173 with a status set also when no keyword occurs
StatusFilterDefaulting(q, i) ==
  IF \E j \in 1..Len(status_keywords) : Contains(q, status_keywords[j].keyword)
    THEN LET j == Min({j \in 1..Len(status_keywords) : Contains(q, status_keywords[j].keyword)})
         IN [k \in {"status"} |-> status_keywords[j].status]
    ELSE [k \in {"status"} |-> "unknown"]

\* lines 170-173
RECURSIVE StatusFilter(_, _)
StatusFilter(q, i) ==
  IF i > Len(status_keywords) THEN <<>>
  ELSE IF Contains(q, status_keywords[i].keyword)
    THEN [k \in {"status"} |-> status_keywords[i].status]
    ELSE StatusFilter(q, i + 1)

extract_filters_from_query(query) ==
  LET query_lower == Lower(query)
  IN NameFilter(query_lower, 1) @@ StatusFilter(query_lower, 1)

\* the words user queries are made of
Words ==
  {<<"f", "o", "r">>,
   <<"b", "y">>,
   <<"e", "m", "p", "l", "o", "y", "e", "e">>,
   <<"j", "o", "h", "n">>,
   <<"S", "m", "i", "t", "h">>,
   <<"x">>,
   <<"d", "e", "c", "l", "i", "n", "e", "d">>,
   <<"A", "p", "p", "r", "o", "v", "e", "d">>,
   <<"r", "e", "j", "e", "c", "t", "e", "d">>,
   <<"p", "a", "r", "t", "i", "a", "l">>,
   <<"p", "e", "n", "d", "i", "n", "g">>,
   <<"h", "e", "l", "l", "o">>,
   <<"a", "l", ",">>}

\* the words of ws with one space between them
RECURSIVE SpaceJoin(_)
SpaceJoin(ws) ==
  IF ws = <<>> THEN <<>>
  ELSE IF Len(ws) = 1 THEN ws[1]
  ELSE ws[1] \o <<" ">> \o SpaceJoin(Tail(ws))

JohnSmithQuery ==
  SpaceJoin(<< <<"S", "h", "o", "w">>,
               <<"m", "e">>,
               <<"i", "n", "v", "o", "i", "c", "e", "s">>,
               <<"f", "o", "r">>,
               <<"J", "o", "h", "n">>,
               <<"S", "m", "i", "t", "h">>,
               <<"t", "h", "a", "t">>,
               <<"w", "e", "r", "e">>,
               <<"d", "e", "c", "l", "i", "n", "e", "d">> >>)

Queries ==
  {SpaceJoin(ws) : ws \in UNION {[1..n -> Words] : n \in 1..MaxWords}} \cup {JohnSmithQuery}

\* ChatbotService._extract_filters_from_query called on the query at hand
ExtractFilters ==
  /\ ret.op = "query"
  /\ ret' = [op |-> "extract_filters", raised |-> FALSE, query |-> ret.query,
             filters |-> extract_filters_from_query(ret.query)]
  /\ UNCHANGED <<disk, batch, store_vars, chat_vars>>

(***************************************************************************)
(* Exceptions: the class and str(e).                                       *)
(***************************************************************************)
Raise(type, message) == [type |-> type, message |-> message]

(***************************************************************************)
(* Invoice ingestion (src/app/services/invoice_service.py)                 *)
(***************************************************************************)
Today == "today"

EmployeeNames == {"Al"}

\* a member of the archive: its name and whether the PDF library can read it
Entries ==
  { [name |-> <<"a", ".", "p", "d", "f">>, corrupt |-> FALSE],
    [name |-> <<"B", ".", "P", "D", "F">>, corrupt |-> TRUE],
    [name |-> <<"n", ".", "t", "x", "t">>, corrupt |-> FALSE] }

RECURSIVE SeqsUpTo(_, _)
SeqsUpTo(S, n) ==
  IF n = 0 THEN {<<>>}
  ELSE LET shorter == SeqsUpTo(S, n - 1)
       IN shorter \cup {Append(q, x) : q \in {r \in shorter : Len(r) = n - 1}, x \in S}

\* what invoices_zip_path may name: no file, a file that is no ZIP, a ZIP of members
Archives ==
  {[kind |-> "missing", entries |-> <<>>], [kind |-> "badzip", entries |-> <<>>]}
    \cup {[kind |-> "ok", entries |-> e] : e \in SeqsUpTo(Entries, MaxFiles)}

\* os.path.join(root, file) for member i of the archive unpacked in temp_dir
PathOf(temp_dir, i, entry) ==
  [dir |-> temp_dir, at |-> i, name |-> entry.name, corrupt |-> entry.corrupt]

\* os.path.basename
Basename(path) == path.name

\* the unpacked files left in place
TempDirKept(files, temp_dir) == files

\* tempfile.TemporaryDirectory().__exit__: the directory and all below it are removed
TempDirCleanup(files, temp_dir) == {f \in files : f.dir # temp_dir}

\* the check of lines 176-177 left out
CheckFoundSkipped(extracted_files) == [raised |-> FALSE, error |-> Raise("", "")]

\* lines 176-177
CheckFoundAny(extracted_files) ==
  IF extracted_files = <<>>
    THEN [raised |-> TRUE, error |-> Raise("ProcessingError", "No PDF files found in ZIP archive")]
    ELSE [raised |-> FALSE, error |-> Raise("", "")]

\* _extract_invoices: the exception or the list returned, and the files left on disk
extract_invoices(archive, files) ==
  IF archive.kind = "missing"
    THEN [raised |-> TRUE, files |-> files, extracted_files |-> <<>>,
          error |-> Raise("ProcessingError", "ZIP extraction failed: No such file or directory")]
  ELSE IF archive.kind = "badzip"
    THEN [raised |-> TRUE, files |-> files, extracted_files |-> <<>>,
          error |-> Raise("ProcessingError", "Invalid ZIP file format")]
  ELSE LET all == [i \in 1..Len(archive.entries) |-> PathOf("tmp", i, archive.entries[i])]
           unpacked == files \cup Range(all)
           IsPdf(path) == EndsWith(Lower(path.name), DotPdf)
           extracted_files == SelectSeq(all, IsPdf)
           left == TempDirCleanup(unpacked, "tmp")
           check == CheckFoundAny(extracted_files)
       IN IF check.raised
            THEN [raised |-> TRUE, files |-> left, extracted_files |-> <<>>,
                  error |-> Raise("ProcessingError",
                                  "ZIP extraction failed: " \o check.error.message)]
            ELSE [raised |-> FALSE, files |-> left, extracted_files |-> extracted_files,
                  error |-> Raise("", "")]

\* PDFProcessor.extract_text (src/app/core/pdf_processor.py)
extract_text(pdf_path, files) ==
  IF pdf_path \notin files
    THEN [raised |-> TRUE, text |-> <<>>,
          error |-> Raise("FileNotFoundError", "PDF file not found: " \o Join(pdf_path.name))]
  ELSE IF ~EndsWith(Lower(pdf_path.name), DotPdf)
    THEN [raised |-> TRUE, text |-> <<>>, error |-> Raise("ValueError", "File must be a PDF")]
  ELSE IF pdf_path.corrupt
    THEN [raised |-> TRUE, text |-> <<>>,
          error |-> Raise("Exception",
               "PDF text extraction failed: PDFPlumber extraction failed: unreadable")]
  ELSE [raised |-> FALSE, text |-> <<"t">>, error |-> Raise("", "")]

\* LLMClient.analyze_invoice (src/app/core/llm_client.py): never raises
analyze_invoice(llm_fails) ==
  IF llm_fails
    THEN [status |-> "Analysis Failed",
          reason |-> "LLM analysis error: unavailable",
          reimbursable_amount |-> "0.00",
          total_amount |-> "0.00",
          policy_violations |-> <<"Technical error">>,
          compliance_notes |-> "System error occurred"]
    ELSE [status |-> "Pending Analysis",
          reason |-> "LLM analysis completed but needs JSON parsing",
          raw_response |-> "response",
          reimbursable_amount |-> "0.00",
          total_amount |-> "0.00",
          policy_violations |-> <<>>,
          compliance_notes |-> "Analysis completed"]

\* InvoiceRecord(..., analysis_result = AnalysisResult(**analysis_result)): whether the
\* constructors accept the dictionary is decided by app/models/data_models.py
InvoiceRecord(analysis_result, rejected) ==
  IF rejected
    THEN [raised |-> TRUE, error |-> Raise("ValidationError", "invalid analysis result")]
    ELSE [raised |-> FALSE, error |-> Raise("", "")]

\* EmbeddingGenerator.create_invoice_embedding
create_invoice_embedding(invoice_data, model_fails) ==
  LET combined_text == invoice_data.raw_text \o <<" ", "R", ":">> \o <<" ", "S", ":">>
                         \o <<" ", "E", ":">>
      e == generate_embedding(combined_text, model_fails)
  IN IF e.ok THEN [raised |-> FALSE, value |-> e.value, error |-> Raise("", "")]
     ELSE [raised |-> TRUE, value |-> 0,
           error |-> Raise("Exception",
             "Invoice embedding creation failed: Embedding generation failed")]

error_result_unmarked(invoice_path, employee_name, e) ==
  [invoice_id |-> Join(Remove(Basename(invoice_path), DotPdf)),
   employee_name |-> employee_name,
   file_name |-> Join(Basename(invoice_path)),
   status |-> "Analysis Failed",
   reason |-> "Processing error: " \o e.message,
   reimbursable_amount |-> "0.00",
   total_amount |-> "",
   date |-> Today,
   policy_compliance |-> "Error"]

\* the dictionary of lines 62-72
error_result(invoice_path, employee_name, e) ==
  [invoice_id |-> Join(Remove(Basename(invoice_path), DotPdf)),
   employee_name |-> employee_name,
   file_name |-> Join(Basename(invoice_path)),
   status |-> "Analysis Failed",
   reason |-> "Processing error: " \o e.message,
   reimbursable_amount |-> "0.00",
   total_amount |-> "0.00",
   date |-> Today,
   policy_compliance |-> "Error"]

\* _process_single_invoice: the exception raised or the result returned, with the
\* collection and id counter it leaves
process_single_invoice(invoice_path, employee_name, files, coll, ids, env) ==
  LET quiet == [raised |-> TRUE, collection |-> coll, next_id |-> ids]
      x == extract_text(invoice_path, files)
      invoice_id == Join(Remove(Basename(invoice_path), DotPdf))
      analysis_result == analyze_invoice(env.llm_fails)
      record == InvoiceRecord(analysis_result, env.record_rejected)
      embedding == create_invoice_embedding([raw_text |-> x.text], env.embed_fails)
      invoice_data == [invoice_id |-> invoice_id,
                       employee_name |-> employee_name,
                       status |-> analysis_result.status,
                       reason |-> analysis_result.reason,
                       reimbursable_amount |-> Str(analysis_result.reimbursable_amount),
                       date |-> Today,
                       file_name |-> Join(Basename(invoice_path))]
      doc_id == uuid4(ids)
  IN IF x.raised THEN quiet @@ [error |-> x.error]
     ELSE IF record.raised THEN quiet @@ [error |-> record.error]
     ELSE IF embedding.raised THEN quiet @@ [error |-> embedding.error]
     ELSE IF env.add_fails
       THEN [raised |-> TRUE, collection |-> coll, next_id |-> ids + 1,
             error |-> Raise("Exception", "Failed to add invoice to vector store: storage")]
     ELSE [raised |-> FALSE,
           collection |-> CollectionAdd(coll, AddInvoiceDoc(doc_id, invoice_data, embedding.value)),
           next_id |-> ids + 1,
           result |-> [invoice_id |-> invoice_id,
                       employee_name |-> employee_name,
                       file_name |-> Join(Basename(invoice_path)),
                       status |-> analysis_result.status,
                       reason |-> analysis_result.reason,
                       reimbursable_amount |-> Str(analysis_result.reimbursable_amount),
                       total_amount |-> Str(analysis_result.total_amount),
                       date |-> Today,
                       policy_compliance |-> "Analyzed",
                       document_id |-> doc_id]]

\* what the collaborators of one document may do
Envs == [llm_fails : BOOLEAN, record_rejected : BOOLEAN,
         embed_fails : BOOLEAN, add_fails : BOOLEAN]

\* lines 58 and 60-73: every document leaves one item
RecordItemDroppingFailures(processed_invoices, outcome, invoice_path, employee_name) ==
  IF outcome.raised THEN processed_invoices
  ELSE Append(processed_invoices, outcome.result)

RecordItem(processed_invoices, outcome, invoice_path, employee_name) ==
  IF outcome.raised
    THEN Append(processed_invoices, error_result(invoice_path, employee_name, outcome.error))
    ELSE Append(processed_invoices, outcome.result)

NoBatch ==
  [pc |-> "idle", archive |-> [kind |-> "missing", entries |-> <<>>],
   employee_name |-> "", invoice_files |-> <<>>, i |-> 0,
   processed_invoices |-> <<>>,
   error |-> Raise("", "")]

\* process_invoices up to its first await
StartBatch(archive, employee_name) ==
  /\ batch.pc # "running"
  /\ LET x == extract_invoices(archive, disk)
     IN /\ disk' = x.files
        /\ batch' = IF x.raised
             THEN [NoBatch EXCEPT !.pc = "raised", !.archive = archive,
                     !.employee_name = employee_name,
                     !.error = Raise("ProcessingError",
                                     "Invoice processing failed: " \o x.error.message)]
             ELSE [NoBatch EXCEPT !.archive = archive,
                     !.pc = IF x.extracted_files = <<>> THEN "returned" ELSE "running",
                     !.employee_name = employee_name,
                     !.invoice_files = x.extracted_files, !.i = 1]
        /\ ret' = [op |-> "process_invoices", raised |-> x.raised]
  /\ UNCHANGED <<store_vars, chat_vars>>

\* one turn of the loop of lines 50-73, and the return of line 75 after the last one
ProcessNext(env) ==
  /\ batch.pc = "running"
  /\ batch.i <= Len(batch.invoice_files)
  /\ LET invoice_path == batch.invoice_files[batch.i]
         outcome == process_single_invoice(invoice_path, batch.employee_name, disk,
                                           collection, next_id, env)
     IN /\ outcome.next_id <= MaxIds
        /\ collection' = outcome.collection
        /\ next_id' = outcome.next_id
        /\ batch' = [batch EXCEPT
             !.processed_invoices =
                RecordItem(@, outcome, invoice_path, batch.employee_name),
             !.i = @ + 1,
             !.pc = IF batch.i = Len(batch.invoice_files) THEN "returned" ELSE "running"]
        /\ ret' = [op |-> "process_single_invoice", raised |-> outcome.raised]
  /\ UNCHANGED <<disk, chat_vars>>

\* the request task is cancelled while the batch awaits
CancelBatch ==
  /\ batch.pc = "running"
  /\ batch' = [batch EXCEPT !.pc = "cancelled"]
  /\ ret' = [op |-> "cancel", raised |-> TRUE]
  /\ UNCHANGED <<disk, store_vars, chat_vars>>

(***************************************************************************)
(* Direct use of the vector index manager (src/scripts/setup_vector_db.py, *)
(* src/scripts/sample_data_loader.py).                                     *)
(***************************************************************************)
SampleInvoices ==
  {[invoice_id |-> "inv", employee_name |-> n, status |-> "Declined", reason |-> "r",
    reimbursable_amount |-> "0.00", date |-> Today, file_name |-> "inv.pdf"] :
      n \in {"Al", "Bo"}}

Embeddings == {0}

\* VectorStoreManager.add_invoice
AddInvoice(invoice_data, embedding, storage_fails) ==
  /\ Len(collection) < MaxDocs
  /\ next_id < MaxIds
  /\ next_id' = next_id + 1
  /\ IF storage_fails
       THEN /\ collection' = collection
            /\ ret' = [op |-> "add_invoice", raised |-> TRUE,
                       error |-> Raise("Exception",
                                  "Failed to add invoice to vector store: storage")]
       ELSE /\ collection' = CollectionAdd(collection,
                               AddInvoiceDoc(uuid4(next_id), invoice_data, embedding))
            /\ ret' = [op |-> "add_invoice", raised |-> FALSE, doc_id |-> uuid4(next_id)]
  /\ UNCHANGED <<disk, batch, chat_vars>>

\* a delete that empties the collection
CollectionDeleteAll(coll, doc_id) == <<>>

\* collection.delete(ids=[doc_id]): an unknown id is accepted and removes nothing
CollectionDelete(coll, doc_id) == SelectSeq(coll, LAMBDA d : d.id # doc_id)

\* VectorStoreManager.delete_invoice
DeleteInvoice(doc_id, storage_fails) ==
  /\ IF storage_fails
       THEN /\ collection' = collection
            /\ ret' = [op |-> "delete_invoice", raised |-> FALSE, value |-> FALSE]
       ELSE /\ collection' = CollectionDelete(collection, doc_id)
            /\ ret' = [op |-> "delete_invoice", raised |-> FALSE, value |-> TRUE]
  /\ UNCHANGED <<next_id, disk, batch, chat_vars>>

\* VectorStoreManager.clear_collection: delete_collection, then get_or_create_collection
ClearCollection(failure) ==
  /\ collection' = IF failure = "delete_collection" THEN collection ELSE <<>>
  /\ ret' = [op |-> "clear_collection", raised |-> FALSE, value |-> (failure = "none")]
  /\ UNCHANGED <<next_id, disk, batch, chat_vars>>

\* settings.collection_name
CollectionName == "invoice_analysis"

\* get_collection_stats with the error of a failed count passed on to the caller
get_collection_stats_raising(coll, count_fails) ==
  IF count_fails
    THEN [raised |-> TRUE, error |-> Raise("Exception", "storage")]
    ELSE [raised |-> FALSE, collection_name |-> CollectionName,
          document_count |-> Len(coll), status |-> "healthy"]

\* get_collection_stats: the dictionary returned
get_collection_stats(coll, count_fails) ==
  IF count_fails
    THEN [raised |-> FALSE, collection_name |-> CollectionName, document_count |-> 0,
          status |-> "error", error |-> "storage"]
    ELSE [raised |-> FALSE, collection_name |-> CollectionName,
          document_count |-> Len(coll), status |-> "healthy"]

\* VectorStoreManager.get_collection_stats
GetCollectionStats(count_fails) ==
  /\ ret' = [op |-> "get_collection_stats", count_fails |-> count_fails]
            @@ get_collection_stats(collection, count_fails)
  /\ UNCHANGED <<disk, batch, store_vars, chat_vars>>

\* the i-th invoice of generate_sample_invoices, for one outcome of its random draws
SampleInvoice(i) ==
  [invoice_id |-> "INV", employee_name |-> (IF i % 2 = 1 THEN "Al" ELSE "Bo"),
   status |-> "Declined", reason |-> "r", reimbursable_amount |-> "0.00",
   total_amount |-> "9.00", date |-> Today, file_name |-> "invoice.pdf"]

\* the loop of load_sample_data from its i-th invoice on: an invoice whose insert fails
\* is counted and skipped
RECURSIVE LoadFrom(_, _, _, _)
LoadFrom(i, coll, ids, failed) ==
  IF i > MaxSamples THEN [collection |-> coll, next_id |-> ids]
  ELSE LoadFrom(i + 1,
                IF i \in failed THEN coll
                ELSE CollectionAdd(coll, AddInvoiceDoc(uuid4(ids), SampleInvoice(i), i % 2)),
                IF i \in failed THEN ids ELSE ids + 1, failed)

\* SampleDataLoader.load_sample_data(generate_sample_invoices()) on the empty collection
LoadSampleData(failed) ==
  /\ collection = <<>>
  /\ collection' = LoadFrom(1, collection, next_id, failed).collection
  /\ next_id' = LoadFrom(1, collection, next_id, failed).next_id
  /\ ret' = [op |-> "load_sample_data", raised |-> FALSE, value |-> (failed = {})]
  /\ UNCHANGED <<disk, batch, chat_vars>>

\* invoices with a field that is None and a key that is absent
PartialInvoices ==
  {[invoice_id |-> PyNone, status |-> "Declined", reason |-> "r",
    reimbursable_amount |-> PyNone, date |-> Today]}

\* what is inserted before searching: the invoice and its embedding
SearchInvoices ==
  {<<[invoice_id |-> "inv", employee_name |-> "Alice", status |-> "Declined", reason |-> "r",
      reimbursable_amount |-> "0.00", date |-> Today, file_name |-> "inv.pdf"], 0>>,
   <<[invoice_id |-> "inv", employee_name |-> "Bob", status |-> "Declined", reason |-> "r",
      reimbursable_amount |-> "0.00", date |-> Today, file_name |-> "inv.pdf"], 0>>,
   <<[invoice_id |-> "inv", employee_name |-> "Alice", status |-> "Fully Reimbursed",
      reason |-> "r", reimbursable_amount |-> "9.00", date |-> Today,
      file_name |-> "inv.pdf"], 1>>}

\* the filters passed to the searches; the empty mapping also stands for None
SearchFilters ==
  {<<>>,
   [employee_name |-> "Alice"],
   [employee_name |-> "Alice", status |-> "Declined"],
   [status |-> ""],
   [employee_name |-> "Alice", status |-> PyNone]}

\* what the installed chromadb release does where its releases differ: whether a where
\* dict must hold exactly one key (validate_where), and how equal distances are ordered
Libs == [strict_where : BOOLEAN, newest_first : BOOLEAN]

\* validate_where, called on every where that is not None
WhereRejected(where, lib) ==
  lib.strict_where /\ ~where.none /\ Cardinality(DOMAIN where.d) # 1

\* the positions of coll that match, closest first, ties by reverse insertion order
RECURSIVE RankedNewestFirst(_, _, _)
RankedNewestFirst(coll, S, q) ==
  IF S = {} THEN <<>>
  ELSE LET best == CHOOSE i \in S : \A j \in S :
                     \/ Distance(coll[i].embedding, q) < Distance(coll[j].embedding, q)
                     \/ /\ Distance(coll[i].embedding, q) = Distance(coll[j].embedding, q)
                        /\ i >= j
       IN <<best>> \o RankedNewestFirst(coll, S \ {best}, q)

\* search_similar under a chromadb release: the exception raised or the list returned
search_similar_in(lib, coll, query_embedding, n_results, filters) ==
  LET where == WhereClause(filters)
      S == {i \in 1..Len(coll) : Matches(coll[i], where)}
      order == IF lib.newest_first THEN RankedNewestFirst(coll, S, query_embedding)
                                   ELSE Ranked(coll, S, query_embedding)
      hits == Take(order, n_results)
  IN IF WhereRejected(where, lib)
       THEN [raised |-> TRUE, results |-> <<>>,
             error |-> Raise("Exception", "Vector search failed: Expected where to have exactly one operator")]
       ELSE [raised |-> FALSE, error |-> Raise("", ""),
             results |-> [i \in 1..Len(hits) |->
                            [id |-> coll[hits[i]].id,
                             document |-> coll[hits[i]].document,
                             metadata |-> coll[hits[i]].metadata,
                             distance |-> Distance(coll[hits[i]].embedding, query_embedding)]]]

\* VectorStoreManager.search_similar
SearchSimilar(query_embedding, n_results, filters, lib) ==
  /\ ret' = [op |-> "search_similar", query_embedding |-> query_embedding,
             n_results |-> n_results, filters |-> filters, lib |-> lib]
            @@ search_similar_in(lib, collection, query_embedding, n_results, filters)
  /\ UNCHANGED <<disk, batch, store_vars, chat_vars>>

\* lines 143-146: the entries with a non-empty value, always a dict
MetadataWhere(filters) ==
  [none |-> FALSE,
   d |-> [k \in {k \in DOMAIN filters : filters[k] # PyNone /\ filters[k] # ""}
            |-> Str(filters[k])]]

\* collection.get(where, limit): the first limit matching positions
GetLimited(S, limit, lib) ==
  LET order == IF lib.newest_first THEN [i \in 1..Len(S) |-> S[Len(S) + 1 - i]] ELSE S
  IN Take(order, limit)

\* collection.get(): every position
GetAll(S, lib) ==
  IF lib.newest_first THEN [i \in 1..Len(S) |-> S[Len(S) + 1 - i]] ELSE S

\* search_by_metadata under a chromadb release: the exception raised or the list returned
search_by_metadata_in(lib, coll, filters, n_results) ==
  LET where_clause == MetadataWhere(filters)
      all == [i \in 1..Len(coll) |-> i]
      hits == IF DOMAIN where_clause.d = {}
                THEN GetAll(all, lib)
                ELSE GetLimited(SelectSeq(all, LAMBDA i : Matches(coll[i], where_clause)),
                                n_results, lib)
  IN IF DOMAIN where_clause.d # {} /\ WhereRejected(where_clause, lib)
       THEN [raised |-> TRUE, results |-> <<>>,
             error |-> Raise("Exception", "Metadata search failed: Expected where to have exactly one operator")]
       ELSE [raised |-> FALSE, error |-> Raise("", ""),
             results |-> [i \in 1..Len(hits) |->
                            [id |-> coll[hits[i]].id,
                             document |-> coll[hits[i]].document,
                             metadata |-> coll[hits[i]].metadata]]]

\* VectorStoreManager.search_by_metadata
SearchByMetadata(filters, n_results, lib) ==
  /\ ret' = [op |-> "search_by_metadata", n_results |-> n_results, filters |-> filters,
             lib |-> lib]
            @@ search_by_metadata_in(lib, collection, filters, n_results)
  /\ UNCHANGED <<disk, batch, store_vars, chat_vars>>

(***************************************************************************)
(* Chatbot service (src/app/services/chatbot_service.py)                   *)
(***************************************************************************)
Now == "now"

SessionIds == {"s1", "s2"}

Messages == { <<" ">>, <<"h", "i">>, <<"b", "y", " ", "A", "l">> }

\* ChatContext(session_id = ...) of app/models/data_models.py
ChatContext(session_id) ==
  [session_id |-> session_id, messages |-> <<>>, last_query |-> PyNone,
   retrieved_documents |-> <<>>]

IdleCall == [pc |-> "idle", message |-> <<>>, session_id |-> "", session |-> 0]

\* the objects a name still refers to; the others are freed
Live(sessions, cs) == (Range(sessions) \cup {cs[c].session : c \in DOMAIN cs}) \ {0}

Collect(h, sessions, cs) == [o \in DOMAIN h \cap Live(sessions, cs) |-> h[o]]

FreshObject(h) == Min({o \in 1..(Cardinality(DOMAIN h) + 1) : o \notin DOMAIN h})

\* the slot a new call takes: 0 when MaxCalls calls are in flight
FreeSlot(cs) ==
  IF \A c \in DOMAIN cs : cs[c].pc # "idle" THEN 0
  ELSE Min({c \in DOMAIN cs : cs[c].pc = "idle"})

\* an append that starts the list anew
AppendMessageReplacing(messages, message) == <<message>>

\* an append that overwrites the last message when it has the same role
AppendMessageOverSameRole(messages, message) ==
  IF messages # <<>> /\ messages[Len(messages)].role = message.role
    THEN [messages EXCEPT ![Len(messages)] = message]
    ELSE Append(messages, message)

\* session.messages.append(message)
AppendMessage(messages, message) == Append(messages, message)

\* session.messages[-n:]
LastN(messages, n) ==
  SubSeq(messages, IF Len(messages) > n THEN Len(messages) - n + 1 ELSE 1, Len(messages))

HistoryUntruncated(messages) == messages

\* chat_history as passed on line 59
HistoryForGenerator(messages) == LastN(messages, HistoryWindow)

\* recent_history of llm_client.py line 123
RecentHistory(chat_history) == LastN(chat_history, PromptWindow)

\* "\n".join(role: content) of lines 124-127
RECURSIVE HistoryText(_)
HistoryText(recent_history) ==
  IF recent_history = <<>> THEN ""
  ELSE recent_history[1].role \o ": " \o recent_history[1].content
         \o (IF Len(recent_history) > 1 THEN "\n" ELSE "")
         \o HistoryText(Tail(recent_history))

\* LLMClient.generate_chat_response: the text returned; it never raises
generate_chat_response(llm_fails) ==
  IF llm_fails THEN "I apologize, but I encountered an error" ELSE "answer"

ContextItem(result) ==
  [invoice_id |-> result.metadata.invoice_id,
   employee_name |-> result.metadata.employee_name,
   status |-> result.metadata.status,
   amount |-> result.metadata.amount,
   date |-> result.metadata.date,
   summary |-> result.document,
   similarity |-> result.distance]

\* what the collaborators of one chat turn may do
ChatEnvs == [embed_fails : BOOLEAN, search_fails : BOOLEAN, llm_fails : BOOLEAN]

\* _retrieve_context without its except clause: a failure inside propagates
retrieve_context_unguarded(query, coll, env) ==
  LET query_embedding == generate_embedding(query, env.embed_fails)
      filters == extract_filters_from_query(query)
      search_results == search_similar(coll, query_embedding.value, MaxResults, filters)
  IN IF ~query_embedding.ok
       THEN [raised |-> TRUE, context_data |-> <<>>,
             error |-> Raise("Exception", "Embedding generation failed: Text cannot be empty")]
     ELSE IF env.search_fails
       THEN [raised |-> TRUE, context_data |-> <<>>,
             error |-> Raise("SearchError", "Vector search failed: Vector search failed: storage")]
     ELSE [raised |-> FALSE, error |-> Raise("", ""),
           context_data |-> [i \in 1..Len(search_results) |-> ContextItem(search_results[i])]]

\* _retrieve_context: any failure inside is printed and yields the empty list
retrieve_context(query, coll, env) ==
  LET query_embedding == generate_embedding(query, env.embed_fails)
      filters == extract_filters_from_query(query)
      search_results == search_similar(coll, query_embedding.value, MaxResults, filters)
  IN IF ~query_embedding.ok \/ env.search_fails
       THEN [raised |-> FALSE, error |-> Raise("", ""), context_data |-> <<>>]
       ELSE [raised |-> FALSE, error |-> Raise("", ""),
             context_data |-> [i \in 1..Len(search_results) |-> ContextItem(search_results[i])]]

\* process_chat_message up to the await of line 53
ChatBegin(c, message, session_id, limit) ==
  /\ c = FreeSlot(calls)
  /\ turns < limit
  /\ turns' = turns + 1
  /\ LET known == session_id \in DOMAIN chat_sessions
         session == IF known THEN chat_sessions[session_id] ELSE FreshObject(heap)
         context == IF known THEN heap[session] ELSE ChatContext(session_id)
         user_message == [role |-> "user", content |-> Join(message), timestamp |-> Now]
     IN /\ chat_sessions' = IF known THEN chat_sessions
                            ELSE chat_sessions @@ (session_id :> session)
        /\ heap' = (session :> [context EXCEPT !.messages = AppendMessage(@, user_message)]) @@ heap
        /\ calls' = [calls EXCEPT ![c] = [pc |-> "awaiting", message |-> message,
                                          session_id |-> session_id, session |-> session]]
  /\ ret' = [op |-> "chat_begin", session_id |-> session_id]
  /\ UNCHANGED <<store_vars, disk, batch, gen>>

\* process_chat_message from line 53 to its return or to the ChatError of line 84
ChatFinish(c, env) ==
  /\ calls[c].pc = "awaiting"
  /\ LET message == calls[c].message
         session == calls[c].session
         retrieved == retrieve_context(message, collection, env)
         context_data == retrieved.context_data
         chat_history == HistoryForGenerator(heap[session].messages)
         recent_history == RecentHistory(chat_history)
         response == generate_chat_response(env.llm_fails)
         assistant_message == [role |-> "assistant", content |-> response, timestamp |-> Now]
         after == [heap EXCEPT ![session] =
                     [@ EXCEPT !.messages = AppendMessage(@, assistant_message),
                               !.last_query = Join(message),
                               !.retrieved_documents = context_data]]
         idle == [calls EXCEPT ![c] = IdleCall]
     IN /\ calls' = idle
        /\ IF retrieved.raised
             THEN /\ gen' = gen
                  /\ heap' = Collect(heap, chat_sessions, idle)
                  /\ ret' = [op |-> "process_chat_message", raised |-> TRUE,
                             query |-> Join(message), env |-> env,
                             error |-> Raise("ChatError", "Chat processing failed: "
                                                            \o retrieved.error.message)]
             ELSE /\ gen' = [user_query |-> Join(message), context_data |-> context_data,
                             chat_history |-> chat_history,
                             recent_history |-> recent_history,
                             history_text |-> HistoryText(recent_history)]
                  /\ heap' = Collect(after, chat_sessions, idle)
                  /\ ret' = [op |-> "process_chat_message", raised |-> FALSE, env |-> env,
                             response |-> response, session_id |-> calls[c].session_id,
                             query |-> Join(message), timestamp |-> Now,
                             context_used |-> (Len(context_data) > 0),
                             retrieved_count |-> Len(context_data)]
  /\ UNCHANGED <<store_vars, disk, batch, chat_sessions, turns>>

\* get_chat_history: the dictionary returned
get_chat_history(sessions, h, session_id) ==
  IF session_id \in DOMAIN sessions
    THEN [op |-> "get_chat_history", session_id |-> session_id,
          history |-> h[sessions[session_id]].messages,
          message_count |-> Len(h[sessions[session_id]].messages),
          last_query |-> h[sessions[session_id]].last_query]
    ELSE [op |-> "get_chat_history", session_id |-> session_id,
          history |-> <<>>, message_count |-> 0, last_query |-> PyNone]

GetChatHistory(session_id) ==
  /\ ret' = get_chat_history(chat_sessions, heap, session_id)
  /\ UNCHANGED <<store_vars, disk, batch, chat_vars>>

\* del self.chat_sessions[session_id]
RemoveAllSessions(sessions, session_id) == <<>>

KeepSession(sessions, session_id) == sessions

RemoveSession(sessions, session_id) ==
  [x \in DOMAIN sessions \ {session_id} |-> sessions[x]]

\* clear_chat_history
ClearChatHistory(session_id) ==
  /\ IF session_id \in DOMAIN chat_sessions
       THEN /\ chat_sessions' = RemoveSession(chat_sessions, session_id)
            /\ heap' = Collect(heap, chat_sessions', calls)
            /\ ret' = [op |-> "clear_chat_history", session_id |-> session_id, value |-> TRUE]
       ELSE /\ UNCHANGED <<chat_sessions, heap>>
            /\ ret' = [op |-> "clear_chat_history", session_id |-> session_id, value |-> FALSE]
  /\ UNCHANGED <<store_vars, disk, batch, calls, gen, turns>>

\* a listing of every session id ever used
GetActiveSessionsAll ==
  /\ ret' = [op |-> "get_active_sessions", sessions |-> SessionIds]
  /\ UNCHANGED <<store_vars, disk, batch, chat_vars>>

\* get_active_sessions
GetActiveSessions ==
  /\ ret' = [op |-> "get_active_sessions", sessions |-> DOMAIN chat_sessions]
  /\ UNCHANGED <<store_vars, disk, batch, chat_vars>>

(***************************************************************************)
(* Specifications.                                                         *)
(***************************************************************************)
\* the services as constructed: an empty collection, no session, nothing in flight
Constructed ==
  /\ collection = <<>>
  /\ next_id = 0
  /\ disk = {}
  /\ batch = NoBatch
  /\ heap = <<>>
  /\ chat_sessions = <<>>
  /\ calls = [c \in 1..MaxCalls |-> IdleCall]
  /\ gen = [user_query |-> "", context_data |-> <<>>, chat_history |-> <<>>,
            recent_history |-> <<>>, history_text |-> ""]
  /\ turns = 0

Init ==
  /\ Constructed
  /\ ret = [op |-> "init"]

StoreNext ==
  \/ \E d \in SampleInvoices \cup PartialInvoices, e \in 0..1, f \in BOOLEAN :
       AddInvoice(d, e, f)
  \/ \E id \in 1..(MaxIds + 1), f \in BOOLEAN : DeleteInvoice(id, f)
  \/ \E f \in {"none", "delete_collection", "get_or_create_collection"} : ClearCollection(f)
  \/ \E f \in BOOLEAN : GetCollectionStats(f)
  \/ \E lib \in Libs : SearchByMetadata(<<>>, 1, lib)

\* inserts, deletes and clears of the index
SpecStore == Init /\ [][StoreNext]_vars

\* inserts and searches of the index
SearchNext ==
  \/ \E x \in SearchInvoices : AddInvoice(x[1], x[2], FALSE)
  \/ \E q \in {0, 1}, n \in 1..MaxResultsAsked, f \in SearchFilters, lib \in Libs :
       SearchSimilar(q, n, f, lib)
  \/ \E n \in 1..MaxResultsAsked, f \in SearchFilters, lib \in Libs :
       SearchByMetadata(f, n, lib)

SpecSearch == Init /\ [][SearchNext]_vars

\* one chat turn at a time over a loaded index
RetrieveNext ==
  \/ \E failed \in {{}, {1}} : LoadSampleData(failed)
  \/ \E m \in Messages : ChatBegin(1, m, "s1", MaxTurns)
  \/ \E env \in ChatEnvs : ChatFinish(1, env)

SpecRetrieve == Init /\ [][RetrieveNext]_vars

\* chat turns one after the other, on two sessions
SeqChatNext ==
  \/ \E m \in Messages \ {<<" ">>}, s \in SessionIds : ChatBegin(1, m, s, MaxTurns)
  \/ \E env \in {e \in ChatEnvs : ~e.embed_fails} : ChatFinish(1, env)
  \/ \E s \in SessionIds : calls[1].pc = "idle" /\ ClearChatHistory(s)

SpecSeqChat == Init /\ [][SeqChatNext]_vars

\* chat turns that overlap on one session
OverlapNext ==
  \/ \E c \in 1..MaxCalls, m \in Messages \ {<<" ">>} : ChatBegin(c, m, "s1", MaxTurns)
  \/ \E c \in 1..MaxCalls, env \in {e \in ChatEnvs : ~e.embed_fails} : ChatFinish(c, env)

SpecOverlap == Init /\ [][OverlapNext]_vars

\* every operation on the sessions, overlapping chat turns included
SessionsNext ==
  \/ \E c \in 1..MaxCalls, s \in SessionIds : ChatBegin(c, <<"h", "i">>, s, MaxTurns)
  \/ \E c \in 1..MaxCalls :
       ChatFinish(c, [embed_fails |-> FALSE, search_fails |-> FALSE, llm_fails |-> FALSE])
  \/ \E s \in SessionIds : ClearChatHistory(s)
  \/ \E s \in SessionIds : GetChatHistory(s)
  \/ GetActiveSessions

SpecSessions == Init /\ [][SessionsNext]_vars

\* ingestion next to direct use of the index
Next ==
  \/ \E a \in Archives, n \in EmployeeNames : StartBatch(a, n)
  \/ \E env \in Envs : ProcessNext(env)
  \/ CancelBatch
  \/ \E d \in {x \in SampleInvoices : x.employee_name = "Al"}, f \in BOOLEAN :
       AddInvoice(d, 0, f)

Spec == Init /\ [][Next]_vars

\* chat turns next to direct use of the index
ChatNext ==
  \/ \E c \in 1..MaxCalls, m \in Messages \ {<<"h", "i">>}, s \in SessionIds :
       ChatBegin(c, m, s, MaxTurns)
  \/ \E c \in 1..MaxCalls, env \in {e \in ChatEnvs : ~e.llm_fails} : ChatFinish(c, env)
  \/ \E s \in SessionIds : ClearChatHistory(s)
  \/ \E d \in {x \in SampleInvoices : x.employee_name = "Al"} : AddInvoice(d, 0, FALSE)

SpecChat == Init /\ [][ChatNext]_vars

\* one session, one call at a time, a long conversation
LongChatNext ==
  \/ \E m \in {<<" ">>, <<"h", "i">>} : ChatBegin(1, m, "s1", MaxLongTurns)
  \/ \E env \in {e \in ChatEnvs : ~e.embed_fails /\ ~e.search_fails} : ChatFinish(1, env)

SpecLongChat == Init /\ [][LongChatNext]_vars

\* the filter extractor applied to queries
FiltersInit ==
  /\ Constructed
  /\ ret \in {[op |-> "query", query |-> q] : q \in Queries}

FiltersNext == ExtractFilters

SpecFilters == FiltersInit /\ [][FiltersNext]_vars


(***************************************************************************)
(* Properties of ingestion (checked under Spec).                           *)
(***************************************************************************)
\* the status a failed document is reported with
FailedStatus == "Analysis Failed"

IsFailed(item) == item.status = FailedStatus

\* the item carries the id of a document that is in the index
InsertedFor(item) == "document_id" \in DOMAIN item /\ item.document_id \in Ids(collection)

\* the PDF members of the archive, in the order they were enumerated
PdfEntries(archive) ==
  LET IsPdfEntry(e) == EndsWith(Lower(e.name), DotPdf)
  IN SelectSeq(archive.entries, IsPdfEntry)

Unopenable(archive) == archive.kind # "ok" \/ PdfEntries(archive) = <<>>

\* C1: a batch of three documents of which only the second cannot be extracted returns
\* three items, the second failed, the first and third analysed and indexed (their
\* unpacked files still exist when they are processed).
C1_SecondOfThreeFails ==
  (/\ batch.pc = "returned"
   /\ Len(PdfEntries(batch.archive)) = 3
   /\ [i \in 1..3 |-> PdfEntries(batch.archive)[i].corrupt] = <<FALSE, TRUE, FALSE>>)
  => /\ Len(batch.processed_invoices) = 3
     /\ IsFailed(batch.processed_invoices[2])
     /\ \A i \in {1, 3} : "document_id" \in DOMAIN batch.processed_invoices[i]

\* C2: a batch over an archive with N >= 1 PDF files never raises and returns exactly
\* N items, one per file in enumeration order, whichever documents fail.
C2_OneItemPerFile ==
  /\ (batch.pc # "idle" /\ ~Unopenable(batch.archive)) => batch.pc # "raised"
  /\ batch.pc = "running" => Len(batch.processed_invoices) = batch.i - 1
  /\ batch.pc = "returned" =>
       /\ Len(batch.processed_invoices) = Len(PdfEntries(batch.archive))
       /\ \A i \in 1..Len(batch.processed_invoices) :
            batch.processed_invoices[i].file_name = Join(PdfEntries(batch.archive)[i].name)

C2_Witness ==
  /\ batch.pc = "returned"
  /\ Len(batch.processed_invoices) = 3
  /\ batch.processed_invoices[1].file_name # batch.processed_invoices[2].file_name
  /\ \E i \in 1..3 : IsFailed(batch.processed_invoices[i])

C4_FailureItem ==
  /\ \A i \in 1..Len(batch.processed_invoices) :
       IsFailed(batch.processed_invoices[i]) =>
         /\ batch.processed_invoices[i].reason # ""
         /\ batch.processed_invoices[i].reimbursable_amount = "0.00"
         /\ batch.processed_invoices[i].total_amount = "0.00"
  /\ (ret.op = "process_single_invoice" /\ ret.raised) =>
       /\ batch.pc = (IF batch.i > Len(batch.invoice_files) THEN "returned" ELSE "running")
       /\ Len(batch.processed_invoices) = batch.i - 1
       /\ IsFailed(batch.processed_invoices[batch.i - 1])

C4_Witness ==
  /\ ret.op = "process_single_invoice"
  /\ ret.raised
  /\ batch.pc = "running"
  /\ IsFailed(batch.processed_invoices[batch.i - 1])

\* C5: an archive that cannot be opened or holds no PDF file makes process_invoices raise
\* ProcessingError with no items, and the call leaves the index as it was.
C5_BatchLevelFailure ==
  /\ [](batch.pc # "idle" /\ Unopenable(batch.archive) =>
          /\ batch.pc = "raised"
          /\ batch.error.type = "ProcessingError"
          /\ batch.processed_invoices = <<>>)
  /\ [][batch'.pc = "raised" /\ ret'.op = "process_invoices" => collection' = collection]_vars

C5_Witness ==
  /\ batch.pc = "raised"
  /\ batch.archive.kind = "ok"
  /\ batch.archive.entries # <<>>
  /\ collection # <<>>

History(s) == get_chat_history(chat_sessions, heap, s).history

IsBlankQuery(q) == \E m \in Messages : Join(m) = q /\ Strip(m) = <<>>

\* C7: when the query cannot be embedded (a blank message included) or the index query
\* fails, process_chat_message does not raise: the generator is called with the empty
\* context and the result reports no context used and zero documents retrieved.
C7_RetrievalFailureDegrades ==
  (/\ ret.op = "process_chat_message"
   /\ (IsBlankQuery(ret.query) \/ ret.env.embed_fails \/ ret.env.search_fails))
  => /\ ~ret.raised
     /\ ret.context_used = FALSE
     /\ ret.retrieved_count = 0
     /\ ret.response # ""
     /\ gen.user_query = ret.query
     /\ gen.context_data = <<>>

C7_Witness ==
  /\ ret.op = "process_chat_message"
  /\ ~ret.raised
  /\ ret.env.search_fails
  /\ ~ret.env.embed_fails
  /\ ret.query = "by Al"
  /\ \E k \in 1..Len(collection) : collection[k].metadata.employee_name = "Al"
  /\ ret.retrieved_count = 0

\* C8: the first user message of a session that had no history leaves a history of
\* length 1 whose only message has role user; after a clear of the session its history
\* has length 0, however many messages it held.
C8_SessionRoundTrip ==
  [][\A s \in SessionIds :
       /\ ((\E c \in 1..MaxCalls, m \in Messages : ChatBegin(c, m, s, MaxTurns))
             /\ History(s) = <<>>)
          => (/\ Len(get_chat_history(chat_sessions', heap', s).history) = 1
              /\ get_chat_history(chat_sessions', heap', s).history[1].role = "user")
       /\ ClearChatHistory(s)
          => Len(get_chat_history(chat_sessions', heap', s).history) = 0]_vars

C8_Witness ==
  /\ ret.op = "clear_chat_history"
  /\ ret.value
  /\ History(ret.session_id) = <<>>
  /\ \E t \in SessionIds : Len(History(t)) = 1 /\ History(t)[1].role = "user"

\* C9: clear returns true exactly when the session existed, and then removes it; it
\* returns false and changes nothing otherwise, so a repeated clear returns false; no
\* other session is touched.
C9_ClearResult ==
  [][\A s \in SessionIds : ClearChatHistory(s) =>
       /\ ret'.value = (s \in DOMAIN chat_sessions)
       /\ s \notin DOMAIN chat_sessions'
       /\ s \notin DOMAIN chat_sessions => (chat_sessions' = chat_sessions /\ heap' = heap)
       /\ (ret.op = "clear_chat_history" /\ ret.session_id = s) => ret'.value = FALSE
       /\ \A t \in SessionIds \ {s} :
            /\ (t \in DOMAIN chat_sessions') = (t \in DOMAIN chat_sessions)
            /\ get_chat_history(chat_sessions', heap', t)
                 = get_chat_history(chat_sessions, heap, t)]_vars

C9_Witness ==
  /\ ret.op = "clear_chat_history"
  /\ ~ret.value
  /\ \E t \in SessionIds \ {ret.session_id} : Len(History(t)) >= 2

\* C10: with n messages in the session at generation time the generator is handed the
\* last min(10, n) of them in order, its prompt shows the last min(4, n) in order, and
\* the stored history keeps all of them.
TailOf(q, k) ==
  LET n == Len(q)
      m == IF n < k THEN n ELSE k
  IN [i \in 1..m |-> q[n - m + i]]

C10_HistoryWindows ==
  (ret.op = "process_chat_message" /\ ~ret.raised) =>
    LET stored == History(ret.session_id)
        at_generation == SubSeq(stored, 1, Len(stored) - 1)
    IN /\ gen.chat_history = TailOf(at_generation, 10)
       /\ gen.recent_history = TailOf(at_generation, 4)
       /\ gen.history_text = HistoryText(TailOf(at_generation, 4))
       /\ Len(stored) = 2 * turns

C10_Witness ==
  /\ ret.op = "process_chat_message"
  /\ Len(History(ret.session_id)) = 12
  /\ Len(gen.chat_history) = 10
  /\ Len(gen.recent_history) = 4
  /\ gen.chat_history[1] = History(ret.session_id)[2]

(***************************************************************************)
(* Filter extraction.                                                      *)
(***************************************************************************)
\* C11: the query "Show me invoices for John Smith that were declined" yields the full
\* name "John Smith" and the status "Declined".
C11_FullNameCaptured ==
  (ret.op = "extract_filters" /\ ret.query = JohnSmithQuery) =>
    /\ DOMAIN ret.filters = {"employee_name", "status"}
    /\ ret.filters.employee_name = "John Smith"
    /\ ret.filters.status = "Declined"

\* what the code yields for that query
C11_FirstWordOnly ==
  (ret.op = "extract_filters" /\ ret.query = JohnSmithQuery) =>
    /\ DOMAIN ret.filters = {"employee_name", "status"}
    /\ ret.filters.employee_name = "John"
    /\ ret.filters.status = "Declined"

\* the priority order of the status keywords and the status each maps to
StatusPriority ==
  << [keyword |-> <<"a", "p", "p", "r", "o", "v", "e", "d">>, status |-> "Fully Reimbursed"],
     [keyword |-> <<"d", "e", "c", "l", "i", "n", "e", "d">>, status |-> "Declined"],
     [keyword |-> <<"r", "e", "j", "e", "c", "t", "e", "d">>, status |-> "Declined"],
     [keyword |-> <<"p", "a", "r", "t", "i", "a", "l">>, status |-> "Partially Reimbursed"],
     [keyword |-> <<"p", "e", "n", "d", "i", "n", "g">>, status |-> "Pending Analysis"] >>

KeywordsIn(q) == {i \in 1..Len(StatusPriority) : Contains(Lower(q), StatusPriority[i].keyword)}

\* C12: the status filter is the mapped value of the first keyword, in the order approved,
\* declined, rejected, partial, pending, that occurs in the query in any letter case,
\* wherever it stands in the text; without a keyword no status filter is set.
C12_StatusByPriority ==
  ret.op = "extract_filters" =>
    IF KeywordsIn(ret.query) = {}
      THEN "status" \notin DOMAIN ret.filters
      ELSE /\ "status" \in DOMAIN ret.filters
           /\ ret.filters.status = StatusPriority[Min(KeywordsIn(ret.query))].status

C12_Witness ==
  /\ ret.op = "extract_filters"
  /\ StartsAt(Lower(ret.query), StatusPriority[2].keyword, 1)
  /\ 1 \in KeywordsIn(ret.query)
  /\ ret.filters.status = "Fully Reimbursed"

\* C13: the extractor never raises, sets no key other than employee_name and status, and
\* returns the empty mapping when the query has no status keyword and no match of the
\* "for", "by" and "employee" patterns.
C13_OnlyNameAndStatus ==
  ret.op = "extract_filters" =>
    /\ ~ret.raised
    /\ DOMAIN ret.filters \subseteq {"employee_name", "status"}
    /\ ( ( /\ KeywordsIn(ret.query) = {}
           /\ \A i \in 1..Len(name_patterns) :
                ~NameSearch(Lower(ret.query), name_patterns[i]).found )
         => DOMAIN ret.filters = {} )

C13_Witness ==
  /\ ret.op = "extract_filters"
  /\ ret.query = <<"h", "e", "l", "l", "o">>
  /\ DOMAIN ret.filters = {}

(***************************************************************************)
(* The vector index.                                                       *)
(***************************************************************************)
\* the ids returned by the inserts made so far
Issued == 1..next_id

\* C14: over any sequence of inserts, deletes and clears, the id an insert returns was
\* returned by no earlier insert, also when the document that carried it was deleted or
\* the collection was cleared; the ids in the collection are ids that inserts returned.
C14_IdsNeverReused ==
  /\ [](Ids(collection) \subseteq Issued)
  /\ [][(next_id' # next_id /\ ~ret'.raised)
          => (ret'.doc_id \notin Issued /\ ret'.doc_id \in Ids(collection'))]_vars

C14_Witness ==
  /\ ret.op = "add_invoice"
  /\ ~ret.raised
  /\ ret.doc_id = 2
  /\ Ids(collection) = {2}

\* what the claim says is stored for a field of the input
StoredAs(invoice_data, key, default) ==
  IF key \notin DOMAIN invoice_data \/ invoice_data[key] = PyNone
    THEN default ELSE invoice_data[key]

MetadataClaimed(invoice_data) ==
  [invoice_id    |-> StoredAs(invoice_data, "invoice_id", "unknown"),
   employee_name |-> StoredAs(invoice_data, "employee_name", "unknown"),
   status        |-> StoredAs(invoice_data, "status", "unknown"),
   date          |-> StoredAs(invoice_data, "date", "unknown"),
   amount        |-> StoredAs(invoice_data, "reimbursable_amount", "0.00"),
   file_name     |-> StoredAs(invoice_data, "file_name", "unknown")]

\* C15: an insert stores "unknown" for an identity field, and "0.00" for the amount,
\* whose input value is None or whose key is absent.
C15_NoneStoredAsUnknown ==
  [][\A d \in SampleInvoices \cup PartialInvoices, e \in 0..1 :
       AddInvoice(d, e, FALSE)
         => collection'[Len(collection')].metadata = MetadataClaimed(d)]_vars

\* what the code stores: the default for an absent key, "None" for a None value
C15_NoneStoredAsNone ==
  [][\A d \in PartialInvoices, e \in 0..1 :
       AddInvoice(d, e, FALSE)
         => /\ collection'[Len(collection')].metadata.invoice_id = "None"
            /\ collection'[Len(collection')].metadata.amount = "None"
            /\ collection'[Len(collection')].metadata.employee_name = "unknown"
            /\ collection'[Len(collection')].metadata.file_name = "unknown"]_vars

\* the keys of a filter whose value is neither None nor empty
NonEmpty(filters) == {k \in DOMAIN filters : filters[k] # PyNone /\ filters[k] # ""}

\* the positions of the collection whose metadata equals the filter on those keys
Matching(filters) ==
  {i \in 1..Len(collection) :
     \A k \in NonEmpty(filters) : collection[i].metadata[k] = filters[k]}

\* C16: every document search_similar returns equals the filter on every filter key with
\* a non-empty value, also when the filter carries employee_name and status at once; with
\* an Alice and a Bob document stored, a search filtered on Alice does not return Bob's.
C16_FilterRespected ==
  ret.op = "search_similar" =>
    \A i \in 1..Len(ret.results) :
      \A k \in NonEmpty(ret.filters) : ret.results[i].metadata[k] = ret.filters[k]

C16_Witness ==
  /\ ret.op = "search_similar"
  /\ NonEmpty(ret.filters) = {"employee_name", "status"}
  /\ ret.n_results = 2
  /\ Len(ret.results) = 1
  /\ ret.results[1].metadata.employee_name = "Alice"
  /\ \E i \in 1..Len(collection) : collection[i].metadata.employee_name = "Bob"

\* the same search with the empty and None entries of its filter removed
WithoutEmptyEntries ==
  search_similar_in(ret.lib, collection, ret.query_embedding, ret.n_results,
                    [k \in NonEmpty(ret.filters) |-> ret.filters[k]])

\* C17: filter entries whose value is None or empty are ignored: the search gives what the
\* same search gives with those entries removed, and a filter whose values are all empty
\* gives what a search without filter gives.
C17_EmptyValuesIgnored ==
  ret.op = "search_similar" =>
    /\ ret.raised = WithoutEmptyEntries.raised
    /\ ret.results = WithoutEmptyEntries.results

\* where the code does ignore them: when an entry with a value is left, or when the
\* chromadb release takes an empty where dict for no where
C17_IgnoredUnlessAllEmpty ==
  (ret.op = "search_similar" /\ (NonEmpty(ret.filters) # {} \/ ~ret.lib.strict_where)) =>
    /\ ret.raised = WithoutEmptyEntries.raised
    /\ ret.results = WithoutEmptyEntries.results

\* the stored embedding of the document with the id
EmbeddingOf(id) == (CHOOSE i \in 1..Len(collection) : collection[i].id = id)

\* C18 as stated: a search without filter for the embedding of a stored document returns
\* that document's id first.
C18_OwnIdFirst ==
  (ret.op = "search_similar" /\ DOMAIN ret.filters = {}) =>
    \A i \in 1..Len(collection) :
      collection[i].embedding = ret.query_embedding =>
        /\ Len(ret.results) >= 1
        /\ ret.results[1].id = collection[i].id

\* C18: a search without filter for the embedding of a stored document returns first a
\* stored document with that embedding, at distance 0: the document itself when no other
\* stored document has the same embedding; the results are in ascending order of their
\* distance to the query.
C18_OwnEmbeddingFirst ==
  (ret.op = "search_similar" /\ DOMAIN ret.filters = {}) =>
    /\ ~ret.raised
    /\ \A i \in 1..(Len(ret.results) - 1) :
         /\ ret.results[i].distance <= ret.results[i + 1].distance
         /\ (collection[EmbeddingOf(ret.results[i].id)].embedding - ret.query_embedding)
              * (collection[EmbeddingOf(ret.results[i].id)].embedding - ret.query_embedding)
            <= (collection[EmbeddingOf(ret.results[i + 1].id)].embedding - ret.query_embedding)
              * (collection[EmbeddingOf(ret.results[i + 1].id)].embedding - ret.query_embedding)
    /\ \A i \in 1..Len(collection) :
         collection[i].embedding = ret.query_embedding =>
           /\ Len(ret.results) >= 1
           /\ ret.results[1].distance = 0
           /\ collection[EmbeddingOf(ret.results[1].id)].embedding = ret.query_embedding
           /\ ( (\A j \in 1..Len(collection) :
                   collection[j].embedding = ret.query_embedding => j = i)
                => ret.results[1].id = collection[i].id )

C18_Witness ==
  /\ ret.op = "search_similar"
  /\ DOMAIN ret.filters = {}
  /\ Len(collection) = 2
  /\ collection[1].embedding # collection[2].embedding
  /\ ret.query_embedding = collection[2].embedding
  /\ Len(ret.results) = 2
  /\ ret.results[1].id = collection[2].id

\* C19 as stated: search_similar returns at most n_results results and, when the
\* collection is empty or no document matches the filter, the empty list, never an error.
C19_AtMostTopKNeverRaises ==
  ret.op = "search_similar" =>
    /\ ~ret.raised
    /\ Len(ret.results) <= ret.n_results
    /\ (Matching(ret.filters) = {} => ret.results = <<>>)

\* what holds of the code: at most n_results results, and an error only for a filter that
\* leaves no entry or more than one entry in the where dict
C19_AtMostTopK ==
  ret.op = "search_similar" =>
    /\ Len(ret.results) <= ret.n_results
    /\ (Matching(ret.filters) = {} => ret.results = <<>>)
    /\ (ret.raised => (DOMAIN ret.filters # {} /\ Cardinality(NonEmpty(ret.filters)) # 1))

\* C20 as stated: search_by_metadata returns at most n_results documents, also for an
\* empty filter over a larger collection, and with a filter only documents that match it.
C20_AtMostLimit ==
  ret.op = "search_by_metadata" =>
    /\ Len(ret.results) <= ret.n_results
    /\ \A i \in 1..Len(ret.results) :
         \A k \in NonEmpty(ret.filters) : ret.results[i].metadata[k] = ret.filters[k]

\* what holds of the code: the limit is applied only when an entry with a value is left
C20_LimitOnlyWithFilter ==
  ret.op = "search_by_metadata" =>
    /\ (NonEmpty(ret.filters) # {} => Len(ret.results) <= ret.n_results)
    /\ (NonEmpty(ret.filters) = {} => (~ret.raised /\ Len(ret.results) = Len(collection)))
    /\ \A i \in 1..Len(ret.results) :
         \A k \in NonEmpty(ret.filters) : ret.results[i].metadata[k] = ret.filters[k]

\* C21 as stated: delete_invoice returns false and changes nothing when no document has
\* the id, and returns true and removes exactly that document when one has.
C21_DeleteReportsExistence ==
  [][\A id \in 1..(MaxIds + 1) :
       DeleteInvoice(id, FALSE)
         => /\ ~ret'.raised
            /\ ret'.value = (id \in Ids(collection))
            /\ collection' = SelectSeq(collection, LAMBDA d : d.id # id)]_vars

\* what holds of the code: it returns true whether or not a document has the id, and false
\* only when the storage call fails; it never raises and removes at most that document
C21_DeleteReportsNoFailure ==
  [][\A id \in 1..(MaxIds + 1), f \in BOOLEAN :
       DeleteInvoice(id, f)
         => /\ ~ret'.raised
            /\ ret'.value = ~f
            /\ collection' = IF f THEN collection
                              ELSE SelectSeq(collection, LAMBDA d : d.id # id)]_vars

\* C22: get_collection_stats never raises; on the empty collection just created it
\* reports document_count 0 and status "healthy"; when the count fails it returns status
\* "error" with the error text.
C22_StatsNeverRaise ==
  ret.op = "get_collection_stats" =>
    /\ ~ret.raised
    /\ IF ret.count_fails
         THEN ret.status = "error" /\ ret.error # ""
         ELSE ret.status = "healthy" /\ ret.document_count = Len(collection)
    /\ ((~ret.count_fails /\ collection = <<>>) => (ret.document_count = 0))

C22_Witness ==
  /\ ret.op = "get_collection_stats"
  /\ ret.count_fails
  /\ ret.status = "error"
  /\ collection # <<>>

\* C23 as stated: a storage failure of an insert or a clear reaches the caller as a
\* VectorStoreError with the cause text; only the statistics and delete return it.
C23_FailuresAreVectorStoreErrors ==
  /\ ((ret.op = "add_invoice" /\ ret.raised) => ret.error.type = "VectorStoreError")
  /\ (ret.op = "clear_collection" => ret.value)

\* what holds of the code: a failed insert raises a plain Exception whose text ends with
\* the cause, and a clear never raises
C23_FailuresArePlainExceptions ==
  /\ ((ret.op = "add_invoice" /\ ret.raised) =>
        (/\ ret.error.type = "Exception"
         /\ ret.error.message = "Failed to add invoice to vector store: storage"))
  /\ (ret.op = "clear_collection" => ~ret.raised)

\* C30: the document count the statistics report is the number of documents in the
\* collection: a successful insert raises it by one, a delete of an existing id lowers it
\* by one, a delete of an unknown id keeps it, a successful clear makes it 0, and the
\* statistics and the searches do not change it.
C30_CountFollowsOperations ==
  /\ []((ret.op = "get_collection_stats" /\ ~ret.count_fails)
          => ret.document_count = Len(collection))
  /\ [][ /\ \A d \in SampleInvoices \cup PartialInvoices, e \in 0..1 :
              AddInvoice(d, e, FALSE) => (Len(collection') = Len(collection) + 1)
         /\ \A id \in 1..(MaxIds + 1) :
              DeleteInvoice(id, FALSE) =>
                (Len(collection') =
                   Len(collection) - (IF id \in Ids(collection) THEN 1 ELSE 0))
         /\ ClearCollection("none") => (Len(collection') = 0)
         /\ (ret'.op \in {"get_collection_stats", "search_by_metadata"})
              => (collection' = collection) ]_vars

C30_Witness ==
  /\ ret.op = "get_collection_stats"
  /\ ~ret.count_fails
  /\ ret.document_count = 1
  /\ Ids(collection) = {2}

(***************************************************************************)
(* Ingestion results.                                                      *)
(***************************************************************************)
\* a file name without its extension: the last dot and what follows it
WithoutExtension(name) ==
  LET dots == {p \in 1..Len(name) : name[p] = "."}
  IN IF dots = {} THEN name ELSE SubSeq(name, 1, Max(dots) - 1)

\* C24 as stated: the invoice_id of every item is the name of its file with exactly the
\* extension stripped, for "B.PDF" as for "a.pdf".
C24_ExtensionStripped ==
  \A i \in 1..Len(batch.processed_invoices) :
    batch.processed_invoices[i].invoice_id
      = Join(WithoutExtension(Basename(batch.invoice_files[i])))

\* what holds of the code: every occurrence of the lower-case ".pdf" is removed from the
\* name, so that a name ending in ".PDF" is kept whole
C24_LowerCasePdfRemoved ==
  \A i \in 1..Len(batch.processed_invoices) :
    LET name == Basename(batch.invoice_files[i])
    IN batch.processed_invoices[i].invoice_id
         = (IF EndsWith(name, DotPdf) THEN Join(WithoutExtension(name)) ELSE Join(name))

\* the statuses an invoice can have
Statuses == {"Fully Reimbursed", "Partially Reimbursed", "Declined", FailedStatus}

StatusAndAmounts(status, reimbursable_amount, total_amount) ==
  /\ status \in Statuses
  /\ (status = "Declined" => reimbursable_amount = "0.00")
  /\ (status = "Fully Reimbursed" => reimbursable_amount = total_amount)

C26_RetrievedCountConsistent ==
  (ret.op = "process_chat_message" /\ ~ret.raised) =>
     /\ ret.retrieved_count \in 0..5
     /\ (ret.context_used <=> ret.retrieved_count > 0)
     /\ ret.session_id \in DOMAIN chat_sessions
     /\ ret.retrieved_count = Len(heap[chat_sessions[ret.session_id]].retrieved_documents)

C26_Witness ==
  /\ ret.op = "process_chat_message"
  /\ ~ret.raised
  /\ Len(collection) > 5
  /\ ret.retrieved_count = 5
  /\ ret.context_used
  /\ Len(heap[chat_sessions[ret.session_id]].retrieved_documents) = 5

\* the last_query a reader of session s is given
LastQuery(s) == get_chat_history(chat_sessions, heap, s).last_query

UserMessage(m) == [role |-> "user", content |-> Join(m), timestamp |-> Now]

AssistantMessage(response) == [role |-> "assistant", content |-> response, timestamp |-> Now]

AllIdle == \A c \in DOMAIN calls : calls[c].pc = "idle"

Alternates(history) ==
  /\ Len(history) % 2 = 0
  /\ \A i \in 1..Len(history) :
       history[i].role = (IF i % 2 = 1 THEN "user" ELSE "assistant")

\* C27: a call process_chat_message(m, s) that runs without overlap appends the user
\* message m and then the assistant's response to the history of s and to nothing else,
\* and sets last_query of s to m; between calls every history has even length and its
\* roles alternate, user first.
C27_TurnAppendsPair ==
  /\ [](AllIdle => \A s \in SessionIds : Alternates(History(s)))
  /\ [][ /\ \A m \in Messages, s \in SessionIds :
              ChatBegin(1, m, s, MaxTurns) =>
                /\ History(s)' = Append(History(s), UserMessage(m))
                /\ \A t \in SessionIds \ {s} : History(t)' = History(t)
         /\ \A env \in ChatEnvs, s \in SessionIds :
              (ChatFinish(1, env) /\ calls[1].session_id = s) =>
                /\ ~ret'.raised
                /\ History(s)' = Append(History(s), AssistantMessage(ret'.response))
                /\ History(s)[Len(History(s))] = UserMessage(calls[1].message)
                /\ LastQuery(s)' = Join(calls[1].message)
                /\ \A t \in SessionIds \ {s} : History(t)' = History(t)
       ]_vars

C27_Witness ==
  /\ AllIdle
  /\ ret.op = "process_chat_message"
  /\ Len(History("s1")) = 4
  /\ History("s1")[1].content # History("s1")[3].content
  /\ LastQuery("s1") = History("s1")[3].content

Count(history, role) == Cardinality({i \in 1..Len(history) : history[i].role = role})

Awaiting == {c \in DOMAIN calls : calls[c].pc = "awaiting"}

\* C28: when calls on one session overlap no message is lost: each call appends its
\* user message when it starts and its reply, after that user message, when it ends,
\* and nothing is ever removed or overwritten; once all calls are complete the history
\* holds one user message and one reply per call, and last_query is one of the
\* messages sent.
C28_NoMessageLost ==
  /\ [](/\ Count(History("s1"), "user") = turns
        /\ Count(History("s1"), "assistant") = turns - Cardinality(Awaiting)
        /\ \A c \in Awaiting : \E i \in 1..Len(History("s1")) :
             History("s1")[i] = UserMessage(calls[c].message)
        /\ (turns > Cardinality(Awaiting) =>
              \E i \in 1..Len(History("s1")) :
                 /\ History("s1")[i].role = "user"
                 /\ History("s1")[i].content = LastQuery("s1")))
  /\ [][ /\ \A c \in 1..MaxCalls, m \in Messages :
              ChatBegin(c, m, "s1", MaxTurns) =>
                History("s1")' = Append(History("s1"), UserMessage(m))
         /\ \A c \in 1..MaxCalls, env \in ChatEnvs :
              ChatFinish(c, env) =>
                /\ History("s1")' = Append(History("s1"), AssistantMessage(ret'.response))
                /\ \E i \in 1..Len(History("s1")) :
                     History("s1")[i] = UserMessage(calls[c].message)
       ]_vars

\* both calls complete, the pairs interleaved, last_query that of the call begun first
C28_Witness ==
  /\ AllIdle
  /\ turns = 2
  /\ Len(History("s1")) = 4
  /\ History("s1")[1].role = "user"
  /\ History("s1")[2].role = "user"
  /\ History("s1")[1].content # History("s1")[2].content
  /\ History("s1")[3].role = "assistant"
  /\ History("s1")[4].role = "assistant"
  /\ LastQuery("s1") = History("s1")[1].content

\* C29: get_active_sessions returns the ids that received a message since they were
\* last cleared: a session comes into being only with the first message sent to it,
\* goes with clear_chat_history, and no other operation adds or removes one; reading
\* the history of an unknown id returns the empty history and creates nothing; the
\* first message after a clear starts the session anew.
C29_ActiveSessions ==
  /\ [](ret.op = "get_active_sessions" => ret.sessions = DOMAIN chat_sessions)
  /\ [](\A s \in DOMAIN chat_sessions : Count(History(s), "user") >= 1)
  /\ [][ /\ \A c \in 1..MaxCalls, m \in Messages, s \in SessionIds :
              ChatBegin(c, m, s, MaxTurns) =>
                /\ DOMAIN chat_sessions' = DOMAIN chat_sessions \cup {s}
                /\ (s \notin DOMAIN chat_sessions =>
                      /\ History(s)' = <<UserMessage(m)>>
                      /\ LastQuery(s)' = PyNone
                      /\ heap'[chat_sessions'[s]].retrieved_documents = <<>>)
         /\ \A s \in SessionIds :
              ClearChatHistory(s) =>
                /\ DOMAIN chat_sessions' = DOMAIN chat_sessions \ {s}
                /\ ret'.value = (s \in DOMAIN chat_sessions)
         /\ \A s \in SessionIds :
              GetChatHistory(s) =>
                /\ chat_sessions' = chat_sessions
                /\ (s \notin DOMAIN chat_sessions =>
                      /\ ret'.history = <<>>
                      /\ ret'.message_count = 0)
         /\ ((GetActiveSessions \/ \E c \in 1..MaxCalls, env \in ChatEnvs : ChatFinish(c, env))
               => chat_sessions' = chat_sessions)
       ]_vars

\* s1 received a message, was cleared while that call was in flight, and is listed
\* again after its next message, with that message alone
C29_Witness ==
  /\ ret.op = "get_active_sessions"
  /\ ret.sessions = {"s1"}
  /\ calls[1].pc = "awaiting" /\ calls[1].session_id = "s1"
  /\ calls[2].pc = "awaiting" /\ calls[2].session_id = "s1"
  /\ Len(History("s1")) = 1

====
